---- MODULE Spec2Model ----
(***************************************************************************)
(* Model of the elimination-voting backend in src/backend/main.py: the     *)
(* in-memory DataStore and the HTTP handlers that mutate it.               *)
(*                                                                         *)
(* Every handler is an operator from the store and the request to the      *)
(* store it leaves behind and the kind of its response; the action of a    *)
(* handler installs that store.  Spec is the serialized execution of the   *)
(* handlers: each runs from its first statement to its return without      *)
(* another handler running in between.  SpecAsync runs the handlers as the *)
(* event loop does: a handler runs up to an awaited send_json, where other *)
(* handlers and the websocket endpoints may run before it is resumed.      *)
(***************************************************************************)
EXTENDS Integers, Sequences, FiniteSets, TLC

\* ------------------------------------------------------------------ bounds
MaxTokens == 3        \* tokens uuid4 hands out in one behaviour
MaxRound == 3         \* the round counter is not advanced beyond this
MaxOps == 5           \* operations begun in one behaviour of SpecAsync
MaxTasks == 2         \* handlers in flight at once in SpecAsync
HostSockets == 2      \* host websockets opened in one behaviour
ParticipantSockets == 1      \* participant websockets opened in one behaviour of SpecAsync
RejoinSockets == 2    \* participant websockets opened in one behaviour of SpecRejoin

\* ------------------------------------------------------- program constants
NAME_MIN_LENGTH == 1
NAME_MAX_LENGTH == 20
OPTIONS_MIN_LENGTH == 2
OPTIONS_MAX_LENGTH == 4
INITIAL_ROUND == 1
NoToken == 0          \* get_token_by_name returning None
None == "None"        \* vote_option = None, new_options = None, no preset

\* ------------------------------------------------------------------ inputs
\* Names are sequences of characters so that strip() and lower() act on them.
RawNames ==
    { <<"a">>, <<"A">>, <<" ", "a">>, <<"A", "\t">>, <<"b">>, <<"c">>,
      <<" ">>, <<>>, <<"<", "b">>,
      [i \in 1..(NAME_MAX_LENGTH + 1) |-> IF i = 1 THEN "a" ELSE " "] }


\* Option lists a host can post in a CreateOptionsRequest (the one-entry list
\* fails the request's validation).
OptionLists == { <<"Red">>, <<"Red", "Blue", "Green">> }

\* An Optional[List[str]]: absent (None) or a list, possibly empty.
NoList == [present |-> FALSE, names |-> <<>>]
SomeList(l) == [present |-> TRUE, names |-> l]

\* What rounds_config.json may hold for a round: no entry, an entry with an
\* empty list, an entry with options.
PresetLists == {NoList, SomeList(<<>>), SomeList(<<"Red", "Blue", "Green">>)}

\* NextRoundRequest.new_options: the request model puts no limit on the length
NewOptionLists ==
    {NoList, SomeList(<<>>), SomeList(<<"Blue", "Red">>), SomeList(<<"Solo">>)}

\* Python truthiness of an Optional[List[str]].
Truthy(ol) == ol.present /\ ol.names # <<>>

\* Option ids a ballot can carry: the generated ones and one that never exists.
OptionIdPool == <<"option_1", "option_2", "option_3", "option_4", "option_5">>
BallotIds == {"option_1", "option_2", "option_3", "option_9"}

\* Tokens a ballot can carry: every token that can be issued and one that never is.
BallotTokens == 1..(MaxTokens + 1)

VARIABLES
    users,            \* store.users: token -> [name, voted, vote_option, eliminated]
    options,          \* store.options: option id -> [id, name, votes]
    game_status,      \* store.game_status
    round,            \* store.round
    eliminated_users, \* store.eliminated_users
    round_history,    \* store.round_history
    issued,           \* number of tokens uuid4 has produced so far
    votedInRound,     \* tokens with a successful vote while the current round number has been current
    votedSinceSet,    \* tokens with a successful vote since the option set was last (re)installed
    talliesAtEnd      \* names and tallies as the last successful EndVoting left them, while the phase is result

VARIABLES
    host_connections, \* manager.host_connections: list of host websockets
    user_connections, \* manager.user_connections: dict token -> websocket, as its entries in order
    sock,             \* every websocket: new, open, dropped (peer gone), closed (endpoint returned)
    tasks,            \* the handlers in flight, each at an awaited send, oldest first
    ops,              \* operations begun so far
    done              \* the operation the last step completed, if any

net == <<host_connections, user_connections, sock, tasks, ops, done>>

vars == <<users, options, game_status, round, eliminated_users, round_history,
          issued, votedInRound, votedSinceSet, talliesAtEnd,
          host_connections, user_connections, sock, tasks, ops, done>>

\* The DataStore as one value.
store ==
    [users |-> users, options |-> options, game_status |-> game_status,
     round |-> round, eliminated_users |-> eliminated_users,
     round_history |-> round_history]

\* What a handler leaves behind: the store, the kind of the response and the
\* token in it (register_user only).
Resp(s, kind, token) == [store |-> s, kind |-> kind, token |-> token]

\* ------------------------------------------------------------ pure helpers
WhitespaceChars == {" ", "\t", "\n"}
\* The character class of validate_name; the quotes, the backslash and the
\* backtick are written by name.
IllegalChars ==
    {"<", ">", "DQUOTE", "QUOTE", "/", "BACKSLASH", ";", "&", "|", "BACKTICK", "$"}

LowerChar(c) ==
    CASE c = "A" -> "a"
      [] c = "B" -> "b"
      [] c = "C" -> "c"
      [] OTHER -> c

Lower(s) == [i \in 1..Len(s) |-> LowerChar(s[i])]

RECURSIVE LStrip(_)
LStrip(s) ==
    IF s # <<>> /\ Head(s) \in WhitespaceChars THEN LStrip(Tail(s)) ELSE s

RECURSIVE RStrip(_)
RStrip(s) ==
    IF s # <<>> /\ s[Len(s)] \in WhitespaceChars
    THEN RStrip(SubSeq(s, 1, Len(s) - 1))
    ELSE s

Strip(s) == RStrip(LStrip(s))

\* UserRegisterRequest: the Field length limits, then validate_name.
\* Returns [ok, name]: the name the handler sees is the stripped one.
validate_name(raw) ==
    LET v == Strip(raw) IN
    IF Len(raw) < NAME_MIN_LENGTH \/ Len(raw) > NAME_MAX_LENGTH
    THEN [ok |-> FALSE, name |-> <<>>]
    ELSE IF v = <<>>
    THEN [ok |-> FALSE, name |-> <<>>]
    ELSE IF \E i \in 1..Len(v) : v[i] \in IllegalChars
    THEN [ok |-> FALSE, name |-> <<>>]
    ELSE [ok |-> TRUE, name |-> v]

\* The tokens of store.users in dict (insertion) order; tokens are issued in
\* increasing order, so insertion order is numeric order.
TokenOrder(us) ==
    SelectSeq([i \in 1..MaxTokens + 1 |-> i], LAMBDA t : t \in DOMAIN us)

get_token_by_name_exact(us, name) ==
    LET hits == SelectSeq(TokenOrder(us), LAMBDA t : us[t].name = Strip(name))
    IN IF hits = <<>> THEN NoToken ELSE Head(hits)

\* DataStore.get_token_by_name: the first user whose lower-cased name equals
\* name.lower().strip(), or None.
get_token_by_name(us, name) ==
    LET name_lower == Strip(Lower(name))
        hits == SelectSeq(TokenOrder(us), LAMBDA t : Lower(us[t].name) = name_lower)
    IN IF hits = <<>> THEN NoToken ELSE Head(hits)

OptionId(i) == OptionIdPool[i]

\* The dict built by the enumerate loop: ids option_1..option_n, no votes.
MakeOptions(names) ==
    [id \in {OptionId(i) : i \in 1..Len(names)} |->
        LET i == CHOOSE j \in 1..Len(names) : OptionId(j) = id
        IN [id |-> id, name |-> names[i], votes |-> 0]]

EmptyOptions == MakeOptions(<<>>)
EmptyUsers == [t \in {} |-> [name |-> <<>>, voted |-> FALSE,
                             vote_option |-> None, eliminated |-> FALSE]]

\* store.options.values() in dict order.
OptionValues(opts) ==
    [i \in 1..Cardinality(DOMAIN opts) |-> opts[OptionId(i)]]

ResetVotes_None(us) == us

ResetVotes_KeepChoice(us) ==
    [t \in DOMAIN us |->
        IF us[t].eliminated THEN us[t]
        ELSE [us[t] EXCEPT !.voted = FALSE]]

\* The loop that sets voted = False and vote_option = None for the non-eliminated.
ResetVotes(us) ==
    [t \in DOMAIN us |->
        IF us[t].eliminated THEN us[t]
        ELSE [us[t] EXCEPT !.voted = FALSE, !.vote_option = None]]

Range(seq) == {seq[i] : i \in 1..Len(seq)}

\* DataStore.reset
EmptyStore ==
    [users |-> EmptyUsers, options |-> EmptyOptions, game_status |-> "waiting",
     round |-> INITIAL_ROUND, eliminated_users |-> {}, round_history |-> <<>>]

\* --------------------------------------------------------------- handlers
\* POST /api/user/register; fresh is the token uuid4 returns if it is called.
register_user(s, raw, fresh) ==
    LET v == validate_name(raw) IN
    IF ~v.ok THEN Resp(s, "ValidationError", NoToken)
    ELSE LET existing_token == get_token_by_name(s.users, v.name) IN
         IF existing_token # NoToken
         THEN Resp(s, "Ok", existing_token)
         ELSE Resp([s EXCEPT !.users =
                        [t \in DOMAIN s.users \cup {fresh} |->
                            IF t = fresh
                            THEN [name |-> v.name, voted |-> FALSE,
                                  vote_option |-> None, eliminated |-> FALSE]
                            ELSE s.users[t]]],
                   "Ok", fresh)

VoteCheck_NoConflict(s, token, option_id) ==
    IF token \notin DOMAIN s.users THEN "NotFound"
    ELSE IF s.users[token].eliminated THEN "Forbidden"
    ELSE IF s.game_status # "voting" THEN "InvalidState"
    ELSE IF option_id \notin DOMAIN s.options THEN "InvalidInput"
    ELSE "Ok"

VoteCheck_StateFirst(s, token, option_id) ==
    IF token \notin DOMAIN s.users THEN "NotFound"
    ELSE IF s.game_status # "voting" THEN "InvalidState"
    ELSE IF s.users[token].eliminated THEN "Forbidden"
    ELSE IF s.users[token].voted THEN "Conflict"
    ELSE IF option_id \notin DOMAIN s.options THEN "InvalidInput"
    ELSE "Ok"

\* The checks of submit_vote, in the order the handler makes them: 404, 403,
\* then the three 400s (already voted, not voting, unknown option).
VoteCheck(s, token, option_id) ==
    IF token \notin DOMAIN s.users THEN "NotFound"
    ELSE IF s.users[token].eliminated THEN "Forbidden"
    ELSE IF s.users[token].voted THEN "Conflict"
    ELSE IF s.game_status # "voting" THEN "InvalidState"
    ELSE IF option_id \notin DOMAIN s.options THEN "InvalidInput"
    ELSE "Ok"

submit_vote_TallyOnly(s, token, option_id) ==
    LET kind == VoteCheck(s, token, option_id) IN
    IF kind # "Ok" THEN Resp(s, kind, NoToken)
    ELSE Resp([s EXCEPT !.options[option_id].votes = @ + 1], "Ok", NoToken)

\* POST /api/vote
submit_vote(s, token, option_id) ==
    LET kind == VoteCheck(s, token, option_id) IN
    IF kind # "Ok" THEN Resp(s, kind, NoToken)
    ELSE Resp([s EXCEPT !.options[option_id].votes = @ + 1,
                        !.users[token].voted = TRUE,
                        !.users[token].vote_option = option_id],
              "Ok", NoToken)

\* get_round_options(store.round): what rounds_config.json, re-read on every
\* request, may hold for the round: no entry, or an entry with an option list.
get_round_options(round_num) == PresetLists

\* POST /api/host/load-preset, with the list get_round_options returned
load_preset_options(s, preset_options) ==
    IF ~Truthy(preset_options) THEN Resp(s, "NotFound", NoToken)
    ELSE Resp([s EXCEPT !.options = MakeOptions(preset_options.names),
                        !.users = ResetVotes(s.users)],
              "Ok", NoToken)

\* CreateOptionsRequest.options: Field(min_length=2, max_length=4)
CreateOptionsRequestValid(names) ==
    Len(names) >= OPTIONS_MIN_LENGTH /\ Len(names) <= OPTIONS_MAX_LENGTH

create_options_ToWaiting(s, names) ==
    IF ~CreateOptionsRequestValid(names) THEN Resp(s, "ValidationError", NoToken)
    ELSE Resp([s EXCEPT !.options = MakeOptions(names),
                        !.users = ResetVotes(s.users),
                        !.game_status = "waiting"],
              "Ok", NoToken)

\* POST /api/host/options
create_options(s, names) ==
    IF ~CreateOptionsRequestValid(names) THEN Resp(s, "ValidationError", NoToken)
    ELSE Resp([s EXCEPT !.options = MakeOptions(names),
                        !.users = ResetVotes(s.users)],
              "Ok", NoToken)

start_voting_Unguarded(s) ==
    Resp([s EXCEPT !.game_status = "voting"], "Ok", NoToken)

\* POST /api/host/start
start_voting(s) ==
    IF DOMAIN s.options = {} THEN Resp(s, "InvalidState", NoToken)
    ELSE Resp([s EXCEPT !.game_status = "voting"], "Ok", NoToken)

\* POST /api/host/end
end_voting(s) ==
    IF s.game_status # "voting" THEN Resp(s, "InvalidState", NoToken)
    ELSE Resp([s EXCEPT !.game_status = "result"], "Ok", NoToken)

\* POST /api/host/reset
reset_game(s) == Resp(EmptyStore, "Ok", NoToken)

\* ------------------------------------------------------------- next_round
\* vote_counts = [opt.votes for opt in store.options.values()]
vote_counts(opts) == [i \in 1..Cardinality(DOMAIN opts) |-> OptionValues(opts)[i].votes]

is_tie_AllEqual(opts) ==
    Cardinality(Range(vote_counts(opts))) = 1

\* is_tie = len(set(vote_counts)) == 1 and vote_counts[0] > 0
is_tie(opts) ==
    /\ Cardinality(Range(vote_counts(opts))) = 1
    /\ vote_counts(opts)[1] > 0

\* max_votes = max(opt.votes for opt in store.options.values())
max_votes(opts) ==
    CHOOSE m \in Range(vote_counts(opts)) :
        \A i \in 1..Len(vote_counts(opts)) : vote_counts(opts)[i] <= m

majority_options_First(opts) ==
    {OptionId(CHOOSE i \in 1..Cardinality(DOMAIN opts) :
        /\ opts[OptionId(i)].votes = max_votes(opts)
        /\ \A j \in 1..(i - 1) : opts[OptionId(j)].votes # max_votes(opts))}

\* majority_options = [opt.id for opt in ... if opt.votes == max_votes]
majority_options(opts) ==
    {id \in DOMAIN opts : opts[id].votes = max_votes(opts)}

Verdict_Reevaluate(user, tie, majority) ==
    IF tie
    THEN IF ~user.voted THEN "eliminated" ELSE "survivor"
    ELSE IF ~user.voted THEN "eliminated"
         ELSE IF user.vote_option \in majority THEN "eliminated"
         ELSE "survivor"

Verdict_TieSparesAll(user, tie, majority) ==
    IF user.eliminated THEN "skip"
    ELSE IF tie THEN "survivor"
    ELSE IF ~user.voted THEN "eliminated"
         ELSE IF user.vote_option \in majority THEN "eliminated"
         ELSE "survivor"

\* The body of the two loops over store.users.items(): what happens to one
\* user in the tie branch and in the majority branch.
Verdict(user, tie, majority) ==
    IF user.eliminated THEN "skip"
    ELSE IF tie
    THEN IF ~user.voted THEN "eliminated" ELSE "survivor"
    ELSE IF ~user.voted THEN "eliminated"
         ELSE IF user.vote_option \in majority THEN "eliminated"
         ELSE "survivor"

\* eliminated_tokens ("eliminated") and the tokens whose names go to
\* survivors ("survivor"), in the order the loop appends them.
TokensWithVerdict(us, opts, verdict) ==
    LET tie == is_tie(opts)
        majority == IF tie THEN {} ELSE majority_options(opts)
    IN SelectSeq(TokenOrder(us), LAMBDA t : Verdict(us[t], tie, majority) = verdict)

NamesOf(us, tokens) == [i \in 1..Len(tokens) |-> us[tokens[i]].name]

round_options_NoVotes(opts) ==
    [i \in 1..Cardinality(DOMAIN opts) |->
        [name |-> OptionValues(opts)[i].name, votes |-> 0]]

\* round_options = [{"name": opt.name, "votes": opt.votes} for opt in ...]
round_options(opts) ==
    [i \in 1..Cardinality(DOMAIN opts) |->
        [name |-> OptionValues(opts)[i].name, votes |-> OptionValues(opts)[i].votes]]

\* user["eliminated"] = True for the tokens appended to eliminated_tokens
MarkEliminated(us, tokens) ==
    [t \in DOMAIN us |->
        IF t \in Range(tokens) THEN [us[t] EXCEPT !.eliminated = TRUE] ELSE us[t]]

\* store.options.clear(), then the new options if the request carries any
NewRoundOptions(new_options) ==
    IF Truthy(new_options) THEN MakeOptions(new_options.names) ELSE EmptyOptions

\* POST /api/host/next-round
next_round(s, new_options) ==
    IF s.game_status # "result" THEN Resp(s, "InvalidState", NoToken)
    ELSE IF DOMAIN s.options = {}
    THEN \* max() of an empty sequence raises before anything is written
         Resp(s, "ServerError", NoToken)
    ELSE LET eliminated_tokens == TokensWithVerdict(s.users, s.options, "eliminated")
             survivor_tokens == TokensWithVerdict(s.users, s.options, "survivor")
         IN Resp([users |-> ResetVotes(MarkEliminated(s.users, eliminated_tokens)),
                  options |-> NewRoundOptions(new_options),
                  game_status |-> "waiting",
                  round |-> s.round + 1,
                  eliminated_users |-> s.eliminated_users \cup Range(eliminated_tokens),
                  round_history |-> Append(s.round_history,
                      [round |-> s.round,
                       options |-> round_options(s.options),
                       is_tie |-> is_tie(s.options),
                       survivors |-> NamesOf(s.users, survivor_tokens),
                       eliminated |-> NamesOf(s.users, eliminated_tokens)])],
                 "Ok", NoToken)

\* The part of next_round before the notifications to the eliminated: the
\* flags, store.eliminated_users and the history entry.
next_round_begin(s) ==
    LET eliminated_tokens == TokensWithVerdict(s.users, s.options, "eliminated")
        survivor_tokens == TokensWithVerdict(s.users, s.options, "survivor")
    IN [s EXCEPT
          !.users = MarkEliminated(s.users, eliminated_tokens),
          !.eliminated_users = s.eliminated_users \cup Range(eliminated_tokens),
          !.round_history = Append(s.round_history,
              [round |-> s.round,
               options |-> round_options(s.options),
               is_tie |-> is_tie(s.options),
               survivors |-> NamesOf(s.users, survivor_tokens),
               eliminated |-> NamesOf(s.users, eliminated_tokens)])]

\* The part of next_round after those notifications, on the store as it is
\* by then: the round, the phase, the options and the votes.
next_round_finish(s, new_options) ==
    [s EXCEPT !.round = s.round + 1,
              !.game_status = "waiting",
              !.options = NewRoundOptions(new_options),
              !.users = ResetVotes(s.users)]

\* ------------------------------------------------------ ConnectionManager
\* A websocket is <<token, n>>: the n-th participant socket, opened under the
\* token, or the n-th host socket, which carries no token.
HostChannels == {<<NoToken, n>> : n \in 1..HostSockets}
UserChannels == {<<t, n>> : t \in 1..MaxTokens, n \in 1..RejoinSockets}
Channels == HostChannels \cup UserChannels

\* An entry of the user_connections dict; a deleted entry stays in place as
\* a hole while the dict is being iterated.
Entry(token, ws) == [token |-> token, ws |-> ws]
Hole == Entry(NoToken, <<NoToken, 0>>)

IsConnected(conns, token) ==
    token # NoToken /\ \E i \in 1..Len(conns) : conns[i].token = token
EntryOf(conns, token) == CHOOSE i \in 1..Len(conns) : conns[i].token = token
\* len(self.user_connections)
DictSize(conns) == Cardinality({i \in 1..Len(conns) : conns[i].token # NoToken})
\* self.user_connections[token] = websocket: in place for a known key
SetConnection(conns, token, ws) ==
    IF IsConnected(conns, token)
    THEN [conns EXCEPT ![EntryOf(conns, token)] = Entry(token, ws)]
    ELSE Append(conns, Entry(token, ws))
\* del self.user_connections[token]
DelConnection(conns, token) == [conns EXCEPT ![EntryOf(conns, token)] = Hole]
UserSockets(conns) == {conns[i].ws : i \in {j \in 1..Len(conns) : conns[j].token # NoToken}}
\* self.host_connections.remove(conn)
RemoveHost(hosts, ws) == SelectSeq(hosts, LAMBDA c : c # ws)

\* The loop "for conn in disconnected: self.host_connections.remove(conn)";
\* remove raises ValueError for a socket that is no longer in the list.
RECURSIVE PruneHosts(_, _)
PruneHosts(hosts, disconnected) ==
    IF disconnected = <<>> THEN [ok |-> TRUE, hosts |-> hosts]
    ELSE IF Head(disconnected) \notin Range(hosts) THEN [ok |-> FALSE, hosts |-> hosts]
    ELSE PruneHosts(RemoveHost(hosts, Head(disconnected)), Tail(disconnected))

\* The loop "for token in disconnected: del self.user_connections[token]";
\* del raises KeyError for a token that is no longer a key.  The list holds
\* the sockets whose sends failed; the key deleted is the socket's token.
RECURSIVE PruneUsers(_, _)
PruneUsers(conns, disconnected) ==
    IF disconnected = <<>> THEN [ok |-> TRUE, conns |-> conns]
    ELSE IF ~IsConnected(conns, Head(disconnected)[1]) THEN [ok |-> FALSE, conns |-> conns]
    ELSE PruneUsers(DelConnection(conns, Head(disconnected)[1]), Tail(disconnected))

\* ------------------------------------------------------- handlers in flight
\* What a handler still has to do after its first writes: broadcasts to the
\* participants or to the hosts, the notifications to the eliminated, and
\* the second part of next_round.
ToUsers(type) == [aud |-> "users", type |-> type]
ToHosts(type) == [aud |-> "hosts", type |-> type]
ToEliminated == [aud |-> "eliminated", type |-> "eliminated"]
FinishRound == [aud |-> "finish", type |-> "none"]

\* A handler in flight: what is left of it (phases), where its current loop
\* stands (idx, size, disconnected), its locals (eliminated_tokens,
\* request.new_options), and what has been observed of it so far: whether an
\* event went out (pushed), the sockets registered when the current broadcast
\* began that no send has been tried on yet (pending), whether a send of a
\* broadcast failed (failed), whether a broadcast ended with such a socket,
\* open and registered, left out (missed), whether a broadcast reached a
\* socket or ended with one open and registered (live), whether a socket
\* whose send failed was still registered after the pruning (kept), the
\* sockets that have since received an event of an operation begun later
\* (overtaken), whether it sent an event to such a socket (late), and whether
\* it sent next_round to the socket of an eliminated participant (wrong).
Idle ==
    [op |-> "none", state |-> "idle", kind |-> "none", phases |-> <<>>,
     idx |-> 0, size |-> 0, disconnected |-> <<>>,
     eliminated_tokens |-> <<>>, new_options |-> NoList,
     pushed |-> FALSE, pending |-> {},
     failed |-> FALSE, missed |-> FALSE, live |-> FALSE, kept |-> FALSE,
     overtaken |-> {}, late |-> FALSE, wrong |-> FALSE]

\* What is recorded of an operation when it completes.
Summary(k) ==
    [op |-> k.op, kind |-> k.kind, pushed |-> k.pushed,
     failed |-> k.failed, missed |-> k.missed, live |-> k.live, kept |-> k.kept,
     late |-> k.late, wrong |-> k.wrong]
NoDone == Summary(Idle)

Registered(c) == Range(c.hosts) \cup UserSockets(c.conns)
OpenAndRegistered(c) == {ws \in Registered(c) : c.sock[ws] = "open"}

\* Entering the loop of the next phase: the iterator starts at the first
\* element and, for the dict, remembers the size.
StartPhase(c) ==
    LET ph == c.task.phases IN
    [c EXCEPT !.task.idx = 1,
              !.task.size = DictSize(c.conns),
              !.task.disconnected = <<>>,
              !.task.pending =
                  IF ph = <<>> THEN {}
                  ELSE IF Head(ph).aud = "hosts" THEN Range(c.hosts)
                  ELSE IF Head(ph).aud = "users" THEN UserSockets(c.conns)
                  ELSE {}]

NextPhase(c) == StartPhase([c EXCEPT !.task.phases = Tail(c.task.phases)])

\* send_json on an open socket: the socket receives the event.
Deliver(c, ws, type) ==
    [c EXCEPT !.task.pushed = TRUE,
              !.task.pending = c.task.pending \ {ws},
              !.task.live = c.task.live \/ c.task.phases[1].aud # "eliminated",
              !.task.late = c.task.late \/ ws \in c.task.overtaken,
              !.task.wrong = c.task.wrong \/
                  /\ type = "next_round"
                  /\ ws[1] \in DOMAIN c.store.users
                  /\ c.store.users[ws[1]].eliminated,
              !.older = [j \in DOMAIN c.older |->
                  [c.older[j] EXCEPT !.overtaken = c.older[j].overtaken \cup {ws}]]]

\* The end of a broadcast, d being the sockets whose sends failed.
EndBroadcast(c, d) ==
    [c EXCEPT !.task.missed = c.task.missed \/
                  \E ws \in c.task.pending : ws \in OpenAndRegistered(c),
              !.task.live = c.task.live \/
                  \E ws \in c.task.pending : ws \in OpenAndRegistered(c),
              !.task.kept = c.task.kept \/ \E ws \in Range(d) : ws \in Registered(c),
              !.task.pending = {}]

Raise(c) == [c EXCEPT !.task.state = "done", !.task.kind = "ServerError"]
Return(c) == [c EXCEPT !.task.state = "done", !.task.kind = "Ok"]
\* The next entry of the dict at or after position i that is not a hole, or 0.
NextEntry(conns, i) ==
    IF \E j \in i..Len(conns) : conns[j].token # NoToken
    THEN CHOOSE j \in i..Len(conns) :
            /\ conns[j].token # NoToken
            /\ \A l \in i..(j - 1) : conns[l].token = NoToken
    ELSE 0

\* A handler runs from where it stands to its end or to the next send_json
\* that goes out, where it may be suspended; a send_json that fails raises at
\* once.  c holds the store, the connection manager, the sockets, the handler
\* and the other handlers in flight.
RECURSIVE Run(_)
Run(c) ==
    LET k == c.task IN
    IF k.phases = <<>> THEN Return(c)
    ELSE
    LET ph == Head(k.phases)
        next == [c EXCEPT !.task.idx = k.idx + 1]
    IN
    CASE ph.aud = "finish" ->
           Run(NextPhase([c EXCEPT !.store = next_round_finish(c.store, k.new_options)]))
      [] ph.aud = "eliminated" ->
           \* for token in eliminated_tokens: await manager.send_to_user(token, ...)
           IF k.idx > Len(k.eliminated_tokens) THEN Run(NextPhase(c))
           ELSE LET token == k.eliminated_tokens[k.idx] IN
                IF ~IsConnected(c.conns, token) THEN Run(next)
                ELSE LET ws == c.conns[EntryOf(c.conns, token)].ws IN
                     IF c.sock[ws] = "open" THEN Deliver(next, ws, ph.type)
                     ELSE Run([next EXCEPT !.conns = DelConnection(c.conns, token)])
      [] ph.aud = "hosts" ->
           \* broadcast_to_hosts: the list iterator reads the list as it is now
           IF k.idx <= Len(c.hosts)
           THEN LET ws == c.hosts[k.idx] IN
                IF c.sock[ws] = "open" THEN Deliver(next, ws, ph.type)
                ELSE Run([next EXCEPT !.task.disconnected = Append(k.disconnected, ws),
                                      !.task.pending = k.pending \ {ws},
                                      !.task.failed = TRUE])
           ELSE LET pr == PruneHosts(c.hosts, k.disconnected)
                    c1 == EndBroadcast([c EXCEPT !.hosts = pr.hosts], k.disconnected)
                IN IF pr.ok THEN Run(NextPhase(c1)) ELSE Raise(c1)
      [] ph.aud = "users" ->
           \* broadcast_to_users: the dict iterator raises RuntimeError when
           \* the dict has changed size since the loop began
           IF DictSize(c.conns) # k.size THEN Raise(EndBroadcast(c, k.disconnected))
           ELSE LET j == NextEntry(c.conns, k.idx) IN
                IF j # 0
                THEN LET ws == c.conns[j].ws
                         at == [c EXCEPT !.task.idx = j + 1]
                     IN IF c.sock[ws] = "open" THEN Deliver(at, ws, ph.type)
                        ELSE Run([at EXCEPT !.task.disconnected = Append(k.disconnected, ws),
                                            !.task.pending = k.pending \ {ws},
                                            !.task.failed = TRUE])
                ELSE LET pr == PruneUsers(c.conns, k.disconnected)
                         c1 == EndBroadcast([c EXCEPT !.conns = pr.conns], k.disconnected)
                     IN IF pr.ok THEN Run(NextPhase(c1)) ELSE Raise(c1)

\* A handler suspended inside the loop of broadcast_to_users.
Iterating(k) ==
    k.state = "suspended" /\ k.phases # <<>> /\ Head(k.phases).aud = "users"

\* The holes of the dict are of no account once no iterator stands in it.
Compact(conns, tks) ==
    IF \E i \in 1..Len(tks) : Iterating(tks[i]) THEN conns
    ELSE SelectSeq(conns, LAMBDA e : e.token # NoToken)

\* ------------------------------------------------------------------ actions
\* DataStore.reset as run by the constructor.
Init ==
    /\ users = EmptyUsers
    /\ options = EmptyOptions
    /\ game_status = "waiting"
    /\ round = INITIAL_ROUND
    /\ eliminated_users = {}
    /\ round_history = <<>>
    /\ issued = 0
    /\ votedInRound = {}
    /\ votedSinceSet = {}
    /\ talliesAtEnd = <<>>
    /\ host_connections = <<>>
    /\ user_connections = <<>>
    /\ sock = [ws \in Channels |-> "new"]
    /\ tasks = <<>>
    /\ ops = 0
    /\ done = NoDone

\* The game is followed until the round counter reaches MaxRound; from then
\* on only a reset is taken.
Running == round < MaxRound

InstallStore(s) ==
    /\ users' = s.users
    /\ options' = s.options
    /\ game_status' = s.game_status
    /\ round' = s.round
    /\ eliminated_users' = s.eliminated_users
    /\ round_history' = s.round_history

\* A handler run from its first statement to its return with nothing in
\* between; the connection manager is left out of Spec.
Install(s) == InstallStore(s) /\ UNCHANGED net

Register(raw) ==
    LET r == register_user(store, raw, issued + 1) IN
    /\ Running
    /\ Install(r.store)
    /\ IF r.token = issued + 1
       THEN issued < MaxTokens /\ issued' = issued + 1
       ELSE issued' = issued
    /\ UNCHANGED <<votedInRound, votedSinceSet, talliesAtEnd>>

Vote(token, option_id) ==
    LET r == submit_vote(store, token, option_id) IN
    /\ Running
    /\ Install(r.store)
    /\ votedInRound' = IF r.kind = "Ok" THEN votedInRound \cup {token} ELSE votedInRound
    /\ votedSinceSet' = IF r.kind = "Ok" THEN votedSinceSet \cup {token} ELSE votedSinceSet
    /\ UNCHANGED <<issued, talliesAtEnd>>

LoadPreset ==
    \E preset_options \in get_round_options(round) :
        LET r == load_preset_options(store, preset_options) IN
        /\ Running
        /\ Install(r.store)
        /\ votedSinceSet' = IF r.kind = "Ok" THEN {} ELSE votedSinceSet
        /\ UNCHANGED <<issued, votedInRound, talliesAtEnd>>

SetOptions(names) ==
    LET r == create_options(store, names) IN
    /\ Running
    /\ Install(r.store)
    /\ votedSinceSet' = IF r.kind = "Ok" THEN {} ELSE votedSinceSet
    /\ UNCHANGED <<issued, votedInRound, talliesAtEnd>>

StartVoting ==
    /\ Running
    /\ Install(start_voting(store).store)
    /\ talliesAtEnd' = IF start_voting(store).kind = "Ok" THEN <<>> ELSE talliesAtEnd
    /\ UNCHANGED <<issued, votedInRound, votedSinceSet>>

EndVoting ==
    /\ Running
    /\ Install(end_voting(store).store)
    /\ talliesAtEnd' = IF end_voting(store).kind = "Ok"
                       THEN round_options(options) ELSE talliesAtEnd
    /\ UNCHANGED <<issued, votedInRound, votedSinceSet>>

AdvanceRound(new_options) ==
    LET r == next_round(store, new_options) IN
    /\ Running
    /\ Install(r.store)
    /\ votedInRound' = IF r.kind = "Ok" THEN {} ELSE votedInRound
    /\ votedSinceSet' = IF r.kind = "Ok" THEN {} ELSE votedSinceSet
    /\ talliesAtEnd' = IF r.kind = "Ok" THEN <<>> ELSE talliesAtEnd
    /\ UNCHANGED issued

Reset ==
    /\ Install(reset_game(store).store)
    /\ votedInRound' = {}
    /\ votedSinceSet' = {}
    /\ talliesAtEnd' = <<>>
    /\ UNCHANGED issued

\* ---------------------------------------------------------- specification
Next ==
    \/ \E raw \in RawNames : Register(raw)
    \/ \E token \in BallotTokens, option_id \in BallotIds : Vote(token, option_id)
    \/ LoadPreset
    \/ \E names \in OptionLists : SetOptions(names)
    \/ StartVoting
    \/ EndVoting
    \/ \E new_options \in NewOptionLists : AdvanceRound(new_options)
    \/ Reset

Spec == Init /\ [][Next]_vars

TypeOK ==
    /\ DOMAIN users \subseteq 1..MaxTokens
    /\ game_status \in {"waiting", "voting", "result"}
    /\ round \in INITIAL_ROUND..MaxRound
    /\ issued \in 0..MaxTokens

\* -------------------------------------------------------------- SpecAsync
\* Requests of SpecAsync.
AsyncNames == { <<"a">>, <<"b">> }
AsyncOptionLists == { <<"Red", "Blue", "Green">> }
AsyncBallotIds == {"option_1", "option_2"}
AsyncNewOptionLists == {NoList, SomeList(<<"Blue", "Red">>)}

ghosts == <<votedInRound, votedSinceSet, talliesAtEnd>>

CanBegin == ops < MaxOps /\ Len(tasks) < MaxTasks

\* The event loop with handler k about to run on, the handlers begun before
\* it being older and those begun after it younger.
Loop(s, k, older, younger) ==
    [store |-> s, hosts |-> host_connections, conns |-> user_connections,
     sock |-> sock, task |-> k, older |-> older, younger |-> younger]

\* A handler has made its first writes, leaving the store s, and goes on to
\* its sends.
Begin(op, s, phases, eliminated_tokens, new_options) ==
    Run(StartPhase(Loop(s,
        [Idle EXCEPT !.op = op, !.state = "suspended",
                     !.phases = phases, !.eliminated_tokens = eliminated_tokens,
                     !.new_options = new_options],
        tasks, <<>>)))

\* What the loop looks like when the handler is suspended again or has ended.
Settle(c) ==
    /\ InstallStore(c.store)
    /\ host_connections' = c.hosts
    /\ tasks' = c.older \o (IF c.task.state = "done" THEN <<>> ELSE <<c.task>>)
                         \o c.younger
    /\ user_connections' = Compact(c.conns, tasks')
    /\ done' = IF c.task.state = "done" THEN Summary(c.task) ELSE NoDone
    /\ UNCHANGED <<sock, ghosts>>

RegisterBegin(raw) ==
    LET r == register_user(store, raw, issued + 1) IN
    /\ CanBegin
    /\ r.kind = "Ok" /\ r.token = issued + 1 /\ issued < MaxTokens
    /\ Settle(Begin("register_user", r.store, <<ToHosts("user_joined")>>, <<>>, NoList))
    /\ issued' = issued + 1
    /\ ops' = ops + 1

VoteBegin(token, option_id) ==
    LET r == submit_vote(store, token, option_id) IN
    /\ CanBegin
    /\ r.kind = "Ok"
    /\ Settle(Begin("submit_vote", r.store, <<ToHosts("vote_update")>>, <<>>, NoList))
    /\ ops' = ops + 1
    /\ UNCHANGED issued

\* The two handlers that await nothing.
Atomic(op, r) ==
    /\ r.kind = "Ok"
    /\ InstallStore(r.store)
    /\ done' = Summary([Idle EXCEPT !.op = op, !.state = "done", !.kind = "Ok",
                           !.live = OpenAndRegistered(Loop(store, Idle, <<>>, <<>>)) # {}])
    /\ UNCHANGED <<host_connections, user_connections, sock, tasks, ops,
                   issued, ghosts>>

LoadPresetAsync ==
    \E preset_options \in get_round_options(round) :
        Atomic("load_preset_options", load_preset_options(store, preset_options))

SetOptionsAsync(names) == Atomic("create_options", create_options(store, names))

StartBegin ==
    LET r == start_voting(store) IN
    /\ CanBegin
    /\ r.kind = "Ok"
    /\ Settle(Begin("start_voting", r.store,
                    <<ToUsers("voting_started"), ToHosts("status_change")>>, <<>>, NoList))
    /\ ops' = ops + 1
    /\ UNCHANGED issued

EndBegin ==
    LET r == end_voting(store) IN
    /\ CanBegin
    /\ r.kind = "Ok"
    /\ Settle(Begin("end_voting", r.store,
                    <<ToUsers("voting_ended"), ToHosts("status_change")>>, <<>>, NoList))
    /\ ops' = ops + 1
    /\ UNCHANGED issued

AdvanceBegin(new_options) ==
    /\ CanBegin
    /\ next_round(store, new_options).kind = "Ok"
    /\ Settle(Begin("next_round", next_round_begin(store),
                    <<ToEliminated, FinishRound, ToUsers("next_round"),
                      ToHosts("round_change")>>,
                    TokensWithVerdict(users, options, "eliminated"), new_options))
    /\ ops' = ops + 1
    /\ UNCHANGED issued

ResetBegin ==
    /\ CanBegin
    /\ Settle(Begin("reset_game", reset_game(store).store,
                    <<ToUsers("game_reset"), ToHosts("game_reset")>>, <<>>, NoList))
    /\ ops' = ops + 1
    /\ UNCHANGED issued

\* The event loop resumes handler i after the send it was awaiting.
Resume(i) ==
    /\ i <= Len(tasks)
    /\ Settle(Run(Loop(store, tasks[i], SubSeq(tasks, 1, i - 1),
                        SubSeq(tasks, i + 1, Len(tasks)))))
    /\ UNCHANGED <<ops, issued>>

\* /ws/host: accept, then connect_host appends the socket.
ConnectHost(n) ==
    /\ sock[<<NoToken, n>>] = "new"
    /\ \A m \in 1..(n - 1) : sock[<<NoToken, m>>] # "new"
    /\ host_connections' = Append(host_connections, <<NoToken, n>>)
    /\ sock' = [sock EXCEPT ![<<NoToken, n>>] = "open"]
    /\ done' = NoDone
    /\ UNCHANGED <<users, options, game_status, round, eliminated_users, round_history,
                   issued, ghosts, user_connections, tasks, ops>>

\* /ws/user/{token}: a known token, accept, then connect_user stores the
\* socket under the token.
ConnectUser(token, n) ==
    /\ token \in DOMAIN users
    /\ \A t \in 1..MaxTokens : sock[<<t, n>>] = "new"
    /\ \A m \in 1..(n - 1) : \E t \in 1..MaxTokens : sock[<<t, m>>] # "new"
    /\ user_connections' = SetConnection(user_connections, token, <<token, n>>)
    /\ sock' = [sock EXCEPT ![<<token, n>>] = "open"]
    /\ done' = NoDone
    /\ UNCHANGED <<users, options, game_status, round, eliminated_users, round_history,
                   issued, ghosts, host_connections, tasks, ops>>

\* The peer of an open socket goes away: sends to it fail from now on.
Drop(ws) ==
    /\ sock[ws] = "open"
    /\ sock' = [sock EXCEPT ![ws] = "dropped"]
    /\ done' = NoDone
    /\ UNCHANGED <<users, options, game_status, round, eliminated_users, round_history,
                   issued, ghosts, host_connections, user_connections, tasks, ops>>

\* receive_text raises WebSocketDisconnect in the endpoint of a socket whose
\* peer is gone: disconnect_host(websocket) or disconnect_user(token).
Disconnect(ws) ==
    /\ sock[ws] = "dropped"
    /\ sock' = [sock EXCEPT ![ws] = "closed"]
    /\ IF ws[1] = NoToken
       THEN /\ host_connections' = RemoveHost(host_connections, ws)
            /\ UNCHANGED user_connections
       ELSE /\ user_connections' =
                  IF IsConnected(user_connections, ws[1])
                  THEN Compact(DelConnection(user_connections, ws[1]), tasks)
                  ELSE user_connections
            /\ UNCHANGED host_connections
    /\ done' = NoDone
    /\ UNCHANGED <<users, options, game_status, round, eliminated_users, round_history,
                   issued, ghosts, tasks, ops>>

NextAsync ==
    \/ \E raw \in AsyncNames : RegisterBegin(raw)
    \/ \E token \in DOMAIN users, option_id \in AsyncBallotIds : VoteBegin(token, option_id)
    \/ LoadPresetAsync
    \/ \E names \in AsyncOptionLists : SetOptionsAsync(names)
    \/ StartBegin
    \/ EndBegin
    \/ \E new_options \in AsyncNewOptionLists : AdvanceBegin(new_options)
    \/ ResetBegin
    \/ \E i \in 1..MaxTasks : Resume(i)
    \/ ConnectHost(1)
    \/ \E token \in 1..MaxTokens, n \in 1..ParticipantSockets : ConnectUser(token, n)
    \/ \E ws \in Channels : Drop(ws)
    \/ \E ws \in Channels : Disconnect(ws)

\* The handlers overlapped, with one host socket.
SpecAsync == Init /\ [][NextAsync]_vars

\* The fan-out to several host sockets: the operations that deliver to the
\* hosts whatever the options and the phase, overlapped, while host sockets
\* come and go.
NextFanout ==
    \/ \E raw \in AsyncNames : RegisterBegin(raw)
    \/ ResetBegin
    \/ \E i \in 1..MaxTasks : Resume(i)
    \/ \E n \in 1..HostSockets : ConnectHost(n)
    \/ \E ws \in HostChannels : Drop(ws)
    \/ \E ws \in HostChannels : Disconnect(ws)

SpecFanout == Init /\ [][NextFanout]_vars

\* Participants that open a socket again: the operations that notify the
\* participants, overlapped, while participant sockets come and go, several
\* of them under one token.
NextRejoin ==
    \/ \E raw \in AsyncNames : RegisterBegin(raw)
    \/ LoadPresetAsync
    \/ StartBegin
    \/ EndBegin
    \/ ResetBegin
    \/ \E i \in 1..MaxTasks : Resume(i)
    \/ \E token \in 1..MaxTokens, n \in 1..RejoinSockets : ConnectUser(token, n)
    \/ \E ws \in UserChannels : Drop(ws)
    \/ \E ws \in UserChannels : Disconnect(ws)

SpecRejoin == Init /\ [][NextRejoin]_vars

\* ------------------------------------------------------------------ claims
Unchanged(r) == r.store = store
NonEliminated(us) == {t \in DOMAIN us : ~us[t].eliminated}

\* C1: apart from Reset the phase moves only waiting->voting, voting->result
\* and result->waiting; StartVoting needs options and fails outside waiting,
\* EndVoting fails outside voting, AdvanceRound fails outside result, each
\* with an invalid-state error and the store unchanged.
C1_PhaseChange ==
    game_status' # game_status =>
        \/ Reset
        \/ <<game_status, game_status'>> \in
              { <<"waiting", "voting">>, <<"voting", "result">>, <<"result", "waiting">> }

C1_OutOfOrderRejected ==
    /\ (game_status \in {"voting", "result"} \/ DOMAIN options = {}) =>
          /\ start_voting(store).kind = "InvalidState"
          /\ Unchanged(start_voting(store))
    /\ game_status \in {"waiting", "result"} =>
          /\ end_voting(store).kind = "InvalidState"
          /\ Unchanged(end_voting(store))
    /\ game_status \in {"waiting", "voting"} =>
          \A n \in NewOptionLists :
              /\ next_round(store, n).kind = "InvalidState"
              /\ Unchanged(next_round(store, n))

C1_PhaseDiscipline == [][C1_PhaseChange /\ C1_OutOfOrderRejected]_vars

\* C2 as claimed: a token that has voted successfully in the current round
\* gets a conflict, and no tally moves, on every further Vote of that round.
C2_OncePerRound ==
    \A t \in votedInRound : \A o \in BallotIds :
        /\ submit_vote(store, t, o).kind = "Conflict"
        /\ Unchanged(submit_vote(store, t, o))

\* C2 as amended: a token that has voted successfully since the option set
\* was last installed (by SetOptions, LoadPreset, AdvanceRound or Reset) gets
\* a conflict, and no tally moves, on every further Vote until the next
\* installation.
C2_OncePerOptionSet ==
    \A t \in votedSinceSet : \A o \in BallotIds :
        /\ submit_vote(store, t, o).kind = "Conflict"
        /\ Unchanged(submit_vote(store, t, o))

\* Voting is still open, a participant has voted for an existing option, and
\* the option they chose is still on offer.
C2_Witness ==
    /\ game_status = "voting"
    /\ \E t \in votedSinceSet :
          /\ users[t].voted
          /\ users[t].vote_option \in DOMAIN options
          /\ options[users[t].vote_option].votes >= 1

RECURSIVE SumSeq(_)
SumSeq(seq) == IF seq = <<>> THEN 0 ELSE Head(seq) + SumSeq(Tail(seq))

Listed(entry) == Range(entry.survivors) \cup Range(entry.eliminated)
LastEntry(h) == h[Len(h)]

\* C4: an eliminated participant stays eliminated until Reset, every Vote of
\* theirs is refused as forbidden with the store unchanged, and no history
\* entry recorded from then on lists their name.
C4_Step ==
    \A t \in DOMAIN users :
        users[t].eliminated =>
            /\ Reset \/ (t \in DOMAIN users' /\ users'[t].eliminated)
            /\ \A o \in BallotIds :
                  /\ submit_vote(store, t, o).kind = "Forbidden"
                  /\ Unchanged(submit_vote(store, t, o))
            /\ \A k \in (Len(round_history) + 1)..Len(round_history') :
                  users[t].name \notin Listed(round_history'[k])

C4_EliminationMonotonic == [][C4_Step]_vars

\* A round eliminated somebody and a later round, which listed somebody, has
\* been recorded since.
C4_Witness ==
    /\ Len(round_history) >= 2
    /\ round_history[1].eliminated # <<>>
    /\ Listed(round_history[2]) # {}
    /\ \E t \in DOMAIN users :
          /\ users[t].eliminated
          /\ users[t].name \in Range(round_history[1].eliminated)

\* The claims' own reading of the tallies.
AllTalliesEqual == \A a, b \in DOMAIN options : options[a].votes = options[b].votes
TieExpected == AllTalliesEqual /\ \E a \in DOMAIN options : options[a].votes > 0
MaxTally ==
    CHOOSE m \in {options[a].votes : a \in DOMAIN options} :
        \A a \in DOMAIN options : options[a].votes <= m
VotedForMaximum(t) ==
    /\ users[t].vote_option \in DOMAIN options
    /\ options[users[t].vote_option].votes = MaxTally
NewlyEliminated(r) ==
    {t \in DOMAIN users : ~users[t].eliminated /\ r.store.users[t].eliminated}

\* C5: an AdvanceRound in phase result that is not a tie eliminates exactly
\* the non-eliminated participants who did not vote or whose option has the
\* maximum tally; every other non-eliminated participant survives.
C5_MajorityRule ==
    (game_status = "result" /\ ~TieExpected) =>
        \A n \in NewOptionLists :
            LET r == next_round(store, n) IN
            /\ r.kind = "Ok"
            /\ DOMAIN r.store.users = DOMAIN users
            /\ NewlyEliminated(r) =
                  {t \in NonEliminated(users) : ~users[t].voted \/ VotedForMaximum(t)}

\* The round recorded last was no tie and had both survivors and eliminated.
C5_Witness ==
    /\ round_history # <<>>
    /\ ~LastEntry(round_history).is_tie
    /\ LastEntry(round_history).survivors # <<>>
    /\ Len(LastEntry(round_history).eliminated) >= 2

C7_AllZeroRound ==
    (game_status = "result" /\ \A a \in DOMAIN options : options[a].votes = 0) =>
        \A n \in NewOptionLists :
            LET r == next_round(store, n) IN
            /\ r.kind = "Ok"
            /\ ~LastEntry(r.store.round_history).is_tie
            /\ LastEntry(r.store.round_history).survivors = <<>>
            /\ \A t \in NonEliminated(users) : r.store.users[t].eliminated

\* The round recorded last had no votes at all and eliminated somebody.
C7_Witness ==
    /\ round_history # <<>>
    /\ \A i \in 1..Len(LastEntry(round_history).options) :
          LastEntry(round_history).options[i].votes = 0
    /\ ~LastEntry(round_history).is_tie
    /\ LastEntry(round_history).survivors = <<>>
    /\ LastEntry(round_history).eliminated # <<>>

\* The ids the claims expect for the options of a list, in order.
ExpectedIds == <<"option_1", "option_2", "option_3", "option_4">>
InstalledAs(opts, names) ==
    /\ DOMAIN opts = {ExpectedIds[i] : i \in 1..Len(names)}
    /\ \A i \in 1..Len(names) :
          opts[ExpectedIds[i]] = [id |-> ExpectedIds[i], name |-> names[i], votes |-> 0]

\* C8: a successful AdvanceRound leaves round + 1, phase waiting, the option
\* set empty or exactly the replacement under ids option_1..option_n with no
\* votes, no vote on any non-eliminated participant, and every participant
\* eliminated before or during the advance still eliminated.
C8_RoundAdvanceReset ==
    game_status = "result" =>
        \A n \in NewOptionLists :
            LET r == next_round(store, n) IN
            /\ r.kind = "Ok"
            /\ r.store.round = round + 1
            /\ r.store.game_status = "waiting"
            /\ IF n.present /\ n.names # <<>>
               THEN InstalledAs(r.store.options, n.names)
               ELSE DOMAIN r.store.options = {}
            /\ DOMAIN r.store.users = DOMAIN users
            /\ \A t \in DOMAIN users :
                  /\ users[t].eliminated => r.store.users[t].eliminated
                  /\ ~r.store.users[t].eliminated =>
                        /\ ~r.store.users[t].voted
                        /\ r.store.users[t].vote_option = None

\* An advance has installed the two replacement options and left both a
\* survivor and an eliminated participant behind.
C8_Witness ==
    /\ round = INITIAL_ROUND + 1
    /\ game_status = "waiting"
    /\ InstalledAs(options, <<"Blue", "Red">>)
    /\ LastEntry(round_history).survivors # <<>>
    /\ \E t \in DOMAIN users : users[t].eliminated /\ users[t].voted
    /\ \E t \in DOMAIN users : ~users[t].eliminated /\ ~users[t].voted

\* The trimmed, lower-cased form of a name.
Normalized(name) == Lower(Strip(name))

\* C9: registering a name whose normalized form is that of a participant
\* returns that participant's token and leaves the store as it is; no two
\* participants share a normalized name; and until Reset a token stays with
\* the participant it was issued to.
C9_Step ==
    /\ \A raw \in RawNames : \A t \in DOMAIN users :
          (validate_name(raw).ok /\ Normalized(raw) = Normalized(users[t].name)) =>
              register_user(store, raw, issued + 1) = Resp(store, "Ok", t)
    /\ \A t1, t2 \in DOMAIN users :
          t1 # t2 => Normalized(users[t1].name) # Normalized(users[t2].name)
    /\ \A t \in DOMAIN users :
          Reset \/ (t \in DOMAIN users' /\ users'[t].name = users[t].name)

ExpectedVoteKind(t, o) ==
    IF t \notin DOMAIN users THEN "NotFound"
    ELSE IF users[t].eliminated THEN "Forbidden"
    ELSE IF users[t].voted THEN "Conflict"
    ELSE IF game_status # "voting" THEN "InvalidState"
    ELSE IF o \notin DOMAIN options THEN "InvalidInput"
    ELSE "Ok"

\* C10: a Vote fails as not-found, forbidden, conflict, invalid-state or
\* invalid-input, in that order of precedence, with the store unchanged; a
\* Vote that passes adds 1 to the chosen option's tally and to no other.
C10_VoteOutcome ==
    \A t \in BallotTokens : \A o \in BallotIds :
        LET r == submit_vote(store, t, o) IN
        /\ r.kind = ExpectedVoteKind(t, o)
        /\ r.kind # "Ok" => Unchanged(r)
        /\ r.kind = "Ok" =>
              /\ DOMAIN r.store.options = DOMAIN options
              /\ r.store.options[o].votes = options[o].votes + 1
              /\ \A a \in DOMAIN options \ {o} :
                    r.store.options[a].votes = options[a].votes
              /\ r.store.game_status = game_status
              /\ r.store.round = round
              /\ r.store.round_history = round_history

VoteKinds == {submit_vote(store, t, o).kind : t \in BallotTokens, o \in BallotIds}

\* Voting is open and ballots of every kind but invalid-state are possible:
\* from an unknown token, an eliminated participant, one who has voted, one
\* who has not (for an option on offer and for one that is not).
C10_Witness ==
    /\ game_status = "voting"
    /\ {"NotFound", "Forbidden", "Conflict", "InvalidInput", "Ok"} \subseteq VoteKinds

\* What SetOptions and LoadPreset are claimed to leave behind when they
\* install the list names on the store.
InstalledWithFrame(r, names) ==
    /\ r.kind = "Ok"
    /\ InstalledAs(r.store.options, names)
    /\ r.store.game_status = game_status
    /\ r.store.round = round
    /\ r.store.round_history = round_history
    /\ r.store.eliminated_users = eliminated_users
    /\ DOMAIN r.store.users = DOMAIN users
    /\ \A t \in DOMAIN users :
          /\ r.store.users[t].name = users[t].name
          /\ r.store.users[t].eliminated = users[t].eliminated
          /\ IF users[t].eliminated
             THEN r.store.users[t] = users[t]
             ELSE ~r.store.users[t].voted /\ r.store.users[t].vote_option = None

\* C11: in every phase SetOptions with a list of 2 to 4 names, and LoadPreset
\* with a preset for the round, install the names as option_1..option_n with
\* tallies 0 and clear voted and chosen_option of every non-eliminated
\* participant, leaving the phase, the round, the history, the participants,
\* the eliminated flags and the eliminated participants' votes as they were.
C11_SetOptionsFrame ==
    /\ \A names \in OptionLists :
          CreateOptionsRequestValid(names) =>
              InstalledWithFrame(create_options(store, names), names)
    /\ \A preset_options \in get_round_options(round) :
          Truthy(preset_options) =>
              InstalledWithFrame(load_preset_options(store, preset_options),
                                 preset_options.names)

\* Voting of a later round has ended, somebody voted in it, and the options
\* were installed again afterwards: the tallies and the survivors' votes are
\* gone while an eliminated participant still carries an earlier vote.
C11_Witness ==
    /\ game_status = "result"
    /\ round > INITIAL_ROUND
    /\ votedInRound # {}
    /\ votedSinceSet = {}
    /\ InstalledAs(options, <<"Red", "Blue", "Green">>)
    /\ \E t \in DOMAIN users : users[t].eliminated /\ users[t].voted
    /\ \E t \in votedInRound : ~users[t].eliminated /\ ~users[t].voted


\* C17: the active option set is empty or holds between 2 and 4 options,
\* whichever operation installed it.
C17_OptionCount ==
    \/ DOMAIN options = {}
    \/ /\ Cardinality(DOMAIN options) >= OPTIONS_MIN_LENGTH
       /\ Cardinality(DOMAIN options) <= OPTIONS_MAX_LENGTH


\* What C16 says of the entry an AdvanceRound records, but for the option
\* snapshot: one entry is appended to an untouched history, its two lists are
\* disjoint and hold exactly the names of the participants that were not
\* eliminated, and so no name of a participant eliminated earlier.
EntryLists(r) ==
    LET e == LastEntry(r.store.round_history) IN
    /\ r.kind = "Ok"
    /\ Len(r.store.round_history) = Len(round_history) + 1
    /\ SubSeq(r.store.round_history, 1, Len(round_history)) = round_history
    /\ e.round = round
    /\ Range(e.survivors) \cap Range(e.eliminated) = {}
    /\ Len(e.survivors) + Len(e.eliminated) = Cardinality(NonEliminated(users))
    /\ Listed(e) = {users[t].name : t \in NonEliminated(users)}
    /\ \A t \in DOMAIN users : users[t].eliminated => users[t].name \notin Listed(e)

\* The names and tallies of the active options, in the order of their ids.
ActiveTallies ==
    [i \in 1..Cardinality(DOMAIN options) |->
        [name |-> options[ExpectedIds[i]].name, votes |-> options[ExpectedIds[i]].votes]]

\* C16 as claimed: the entry is as above and its option snapshot holds the
\* tallies as they were at the end of voting.
C16_HistoryEntry ==
    game_status = "result" =>
        \A n \in NewOptionLists :
            LET r == next_round(store, n) IN
            /\ EntryLists(r)
            /\ LastEntry(r.store.round_history).options = talliesAtEnd

\* C16 as amended: the entry is as above and its option snapshot holds the
\* names and tallies of the option set that is active when AdvanceRound is
\* invoked.
C16_HistoryEntryActive ==
    game_status = "result" =>
        \A n \in NewOptionLists :
            LET r == next_round(store, n) IN
            /\ EntryLists(r)
            /\ LastEntry(r.store.round_history).options = ActiveTallies

\* A second round has been recorded with a survivor, an eliminated
\* participant and a counted vote, after a first round that eliminated
\* somebody else.
C16_Witness ==
    /\ Len(round_history) = 2
    /\ round_history[1].eliminated # <<>>
    /\ round_history[2].survivors # <<>>
    /\ round_history[2].eliminated # <<>>
    /\ \E i \in 1..Len(round_history[2].options) : round_history[2].options[i].votes > 0
    /\ Listed(round_history[2]) \cap Range(round_history[1].eliminated) = {}


\* C20: while the phase is voting or result the active option set is not
\* empty, so AdvanceRound never takes the maximum of no tallies.
C20_OptionsWhileOpen ==
    game_status \in {"voting", "result"} =>
        /\ DOMAIN options # {}
        /\ \A n \in NewOptionLists : next_round(store, n).kind # "ServerError"

\* Voting of a later round has ended: an advance had emptied the option set
\* and options were installed again before voting was opened and closed.
C20_Witness ==
    /\ game_status = "result"
    /\ round > INITIAL_ROUND
    /\ Len(round_history) >= 1
    /\ DOMAIN options # {}
    /\ next_round(store, NoList).kind = "Ok"


\* A next_round that has recorded its eliminations and its history entry and
\* has not yet advanced the round.
MidAdvance(k) ==
    k.op = "next_round" /\ \E j \in 1..Len(k.phases) : k.phases[j] = FinishRound

\* A step that begins an operation.
OperationBegins ==
    \/ ops' # ops
    \/ LoadPresetAsync
    \/ \E names \in AsyncOptionLists : SetOptionsAsync(names)

\* C12: between the point where AdvanceRound has marked the eliminated and
\* appended the history entry and the point where it advances the round, no
\* other operation begins or runs on: the only handler to run is that
\* AdvanceRound.
C12_Step ==
    \A i \in 1..Len(tasks) :
        MidAdvance(tasks[i]) =>
            /\ ~OperationBegins
            /\ \A j \in 1..Len(tasks) : j # i => ~Resume(j)

C12_AdvanceAtomic == [][C12_Step]_vars

\* C13: an operation in whose host or participant broadcast a send failed
\* still ends in success, every other open socket registered at the start of
\* the broadcast has received the event, and the failed socket is no longer
\* registered.
C13_BroadcastIsolation ==
    done.failed => /\ done.kind = "Ok"
                   /\ ~done.missed
                   /\ ~done.kept

\* C14: an operation that succeeds and has an open, registered socket in its
\* audience has pushed at least one event.
C14_EventPushed ==
    (done.op # "none" /\ done.kind = "Ok" /\ done.live) => done.pushed

\* C15: no operation delivers an event to a socket that has already received
\* an event of an operation invoked after it.
C15_ChannelOrder ==
    /\ ~done.late
    /\ \A i \in 1..Len(tasks) : ~tasks[i].late

\* C18: no AdvanceRound delivers its next_round event to the socket of a
\* participant who is eliminated at the time of the send.
C18_NextRoundAudience ==
    /\ ~done.wrong
    /\ \A i \in 1..Len(tasks) : ~tasks[i].wrong

\* C19: whenever no AdvanceRound stands between its history entry and its
\* round increment, the history has round - 1 entries and its i-th entry
\* carries round number i.
C19_HistoryMatchesRound ==
    (\A i \in 1..Len(tasks) : ~MidAdvance(tasks[i])) =>
        /\ Len(round_history) = round - 1
        /\ \A i \in 1..Len(round_history) : round_history[i].round = i

\* C21: for every non-eliminated participant, voted is set exactly when
\* vote_option is not None, and a set vote_option is the id of an option of
\* the active option set.
C21_VoteMatchesChoice ==
    \A t \in NonEliminated(users) :
        /\ users[t].voted <=> users[t].vote_option # None
        /\ users[t].voted => users[t].vote_option \in DOMAIN options

\* A later round, whose option set replaced the one of the round before: one
\* surviving participant holds a vote for an option of the new set, another
\* survivor has not voted.
C21_Witness ==
    /\ round > INITIAL_ROUND
    /\ \E t \in NonEliminated(users) :
          /\ users[t].voted
          /\ users[t].vote_option \in DOMAIN options
          /\ options[users[t].vote_option].votes > 0
    /\ \E t \in NonEliminated(users) :
          ~users[t].voted /\ users[t].vote_option = None

\* The socket a token opened last.
NewestOf(ws) == \A n \in (ws[2] + 1)..RejoinSockets : sock[<<ws[1], n>>] = "new"

\* C22: the socket a participant opened last under its token, while it is
\* open (it has not disconnected and no send to it has failed), is the
\* socket registered for the token, whatever happens to the sockets the
\* token opened earlier.
C22_NewerChannelStays ==
    \A ws \in UserChannels :
        (sock[ws] = "open" /\ NewestOf(ws)) => ws \in UserSockets(user_connections)


====
